---- MODULE Spec2Model ----
(***************************************************************************)
(* A model of pythonping: the ping() entry point with its process-wide     *)
(* identifier list (src/pythonping/__init__.py) and the executor module    *)
(* (src/pythonping/executor.py): Response, ResponseList, Communicator.     *)
(*                                                                         *)
(* Four specifications share the variables:                                *)
(*   SpecPing  threads calling ping() concurrently (SEED_IDs);             *)
(*   Spec      one Communicator.run() with its listen_for loop;            *)
(*   SpecList  a ResponseList under append / success / clear;              *)
(*   SpecSeq   the sequence numbers of one long run().                     *)
(* Time is counted in ticks of half a second.                              *)
(***************************************************************************)
EXTENDS Integers, Sequences, FiniteSets, TLC

(* ------------------------------ bounds -------------------------------- *)
\* threads that call ping() concurrently
NumThreads == 2
\* randint(0x1, 0xFFFF) draws from 1..MaxId
MaxId == 2

Threads == 1..NumThreads
Ids == 1..MaxId

None == "None"

VARIABLES
    \* ---- __init__.py: module state and the locals of each ping() call
    SEED_IDs,       \* the module-level list
    ping_pc,        \* thread -> position inside ping()
    ping_seed_id,   \* thread -> local seed_id (0: not drawn)
    ping_exit,      \* thread -> how the thread's last ping() ended
    \* ---- executor.py: ResponseList
    responses,      \* self._responses
    rtt_avg,        \* a rational <<numerator, denominator>>
    rtt_min,
    rtt_max,
    packets_lost,   \* a rational <<numerator, denominator>>
    appended,       \* results appended since construction
    ret,            \* what the last success() call returned (NoCall: none)
    \* ---- executor.py: Response
    error_read,     \* the last read of a Response's error_message and success
    \* ---- executor.py: Communicator and its run()
    comm,           \* the fields __init__ sets, and the payloads of the provider
    match_payloads, \* run()'s argument
    pc,             \* position inside run() / listen_for()
    now,            \* time.time(), in ticks
    seq,            \* run(): seq
    next_payload,   \* run(): payloads the for loop has taken from the provider
    start_time,     \* self.start_time = self.responses.start_time (-1: unset)
    stop_time,      \* self.stop_time = self.responses.stop_time (-1: unset)
    time_left,      \* listen_for(): time_left
    payload_pattern,\* listen_for(): <<>> for None, <<bytes>> otherwise
    result,         \* what listen_for() returned to run()
    \* ---- the network, as the session meets it
    attempts,       \* requests sent in this run
    last_sent,      \* the request sent last (NoMessage: none yet)
    prev_sent,      \* the request sent before that
    waited,         \* time the receive calls of this attempt have consumed
    last_raw,       \* the bytes the last receive call returned
    last_outcome    \* what listen_for() did with them

pingVars == <<SEED_IDs, ping_pc, ping_seed_id, ping_exit>>
listVars == <<responses, rtt_avg, rtt_min, rtt_max, packets_lost>>
callVars == <<appended, ret>>
runVars == <<comm, match_payloads, pc, now, seq, next_payload, start_time,
             stop_time, time_left, payload_pattern, result>>
netVars == <<attempts, last_sent, prev_sent, waited, last_raw, last_outcome>>
respVars == <<error_read>>
vars == <<pingVars, listVars, callVars, respVars, runVars, netVars>>
nonPingVars == <<listVars, callVars, respVars, runVars, netVars>>
nonListVars == <<pingVars, respVars, runVars, netVars>>

(* ----------------------------- helpers -------------------------------- *)
InList(x, list) == \E i \in 1..Len(list) : list[i] = x

RECURSIVE FirstIndex(_, _, _)
FirstIndex(x, list, i) ==
    IF i > Len(list) THEN 0
    ELSE IF list[i] = x THEN i ELSE FirstIndex(x, list, i + 1)

\* list.remove(x): the first occurrence goes (x is present when called)
ListRemove(list, x) ==
    LET k == FirstIndex(x, list, 1)
    IN  [i \in 1..(Len(list) - 1) |-> IF i < k THEN list[i] ELSE list[i + 1]]

Count(x, list) == Cardinality({i \in 1..Len(list) : list[i] = x})

(* ------------------------------ Response ------------------------------ *)
\* a decoded ICMP packet, as listen_for and Response read it
Packet(type, code, id, sequence_number, payload) ==
    [message_type |-> type, message_code |-> code, id |-> id,
     sequence_number |-> sequence_number, payload |-> payload]

\* message = None
NoMessage == [none |-> TRUE]

\* Response(message, time_elapsed); the message is its packet, or NoMessage
Response(message, time_elapsed) ==
    [message |-> message, time_elapsed |-> time_elapsed]

unreachable_messages == <<
    "Network Unreachable",
    "Host Unreachable",
    "Protocol Unreachable",
    "Port Unreachable",
    "Fragmentation Required",
    "Source Route Failed",
    "Network Unknown",
    "Host Unknown",
    "Source Host Isolated",
    "Communication with Destination Network is Administratively Prohibited",
    "Communication with Destination Host is Administratively Prohibited",
    "Network Unreachable for ToS",
    "Host Unreachable for ToS",
    "Communication Administratively Prohibited",
    "Host Precedence Violation",
    "Precedence Cutoff in Effect" >>

\* error_message without its guard of the table lookup
error_message_unguarded(r) ==
    IF r.message = NoMessage THEN "No response"
    ELSE IF r.message.message_type = 0 /\ r.message.message_code = 0 THEN None
    ELSE IF r.message.message_type = 3
         THEN IF r.message.message_code + 1 \in DOMAIN unreachable_messages
              THEN unreachable_messages[r.message.message_code + 1]
              ELSE "IndexError"
    ELSE "Network Error"

\* Response.error_message (None: no error)
error_message(r) ==
    IF r.message = NoMessage THEN "No response"
    ELSE IF r.message.message_type = 0 /\ r.message.message_code = 0 THEN None
    ELSE IF r.message.message_type = 3
         THEN IF r.message.message_code + 1 \in DOMAIN unreachable_messages
              THEN unreachable_messages[r.message.message_code + 1]
              ELSE "Unreachable"
    ELSE "Network Error"

\* Response.success
ResponseSuccess(r) == error_message(r) = None

\* the responses whose properties are read: no message, and a message of
\* each type with each code up to 17 and the largest code of a byte
ResponseTypes == {0, 3, 8, 11}
ResponseCodes == (0..17) \cup {255}
ResponseInputs(max_elapsed) ==
    {Response(m, e) :
        m \in {NoMessage} \cup
              {Packet(t, c, 1, 1, <<>>) : t \in ResponseTypes, c \in ResponseCodes},
        e \in 0..max_elapsed}

\* no property of a Response has been read
NoRead == [response |-> Response(NoMessage, 0), error_message |-> "unread",
           success |-> FALSE]

\* r.error_message and r.success are read
ReadErrorMessage(r) ==
    /\ error_read' = [response |-> r, error_message |-> error_message(r),
                      success |-> ResponseSuccess(r)]
    /\ UNCHANGED <<pingVars, listVars, callVars, runVars, netVars>>

(* ----------------------------- rationals ------------------------------ *)
Abs(x) == IF x < 0 THEN -x ELSE x

RECURSIVE GCD(_, _)
GCD(a, b) == IF b = 0 THEN a ELSE GCD(b, a % b)

\* n / d in lowest terms, d > 0
Rat(n, d) == LET g == GCD(Abs(n), d) IN <<n \div g, d \div g>>
RatOfInt(k) == <<k, 1>>
RatAdd(a, b) == Rat(a[1] * b[2] + b[1] * a[2], a[2] * b[2])
RatSub(a, b) == Rat(a[1] * b[2] - b[1] * a[2], a[2] * b[2])
RatMulInt(a, k) == Rat(a[1] * k, a[2])
RatDivInt(a, k) == Rat(a[1], a[2] * k)
RatLess(a, b) == a[1] * b[2] < b[1] * a[2]

(* ---------------------------- ResponseList ---------------------------- *)
\* results the list is given
MaxAppends == 3
\* their elapsed times, in ticks
MaxElapsed == 2

SuccessOn == [One |-> 1, Most |-> 2, All |-> 3]
Options == {SuccessOn.One, SuccessOn.Most, SuccessOn.All}

\* a call's outcome: the value returned, or the error raised
Returns(v) == [result |-> v, raised |-> None]
Raises(e) == [result |-> FALSE, raised |-> e]
\* no success() call since the last change of the list
NoCall == [option |-> 0, result |-> FALSE, raised |-> None]

\* append, the else branch: the mean of n results from the mean of n - 1
RollingAvg(avg, n, time_elapsed) ==
    RatDivInt(RatAdd(RatMulInt(avg, n - 1), RatOfInt(time_elapsed)), n)

NewMaxBroken(max, time_elapsed) == IF time_elapsed < max THEN time_elapsed ELSE max
NewMax(max, time_elapsed) == IF time_elapsed > max THEN time_elapsed ELSE max
NewMin(min, time_elapsed) == IF time_elapsed < min THEN time_elapsed ELSE min

\* append, its last statement:
\*   packets_lost + (0 if value.success else 1 - packets_lost) / len(self)
NewPacketsLost(lost, ok, n) ==
    RatAdd(lost,
           RatDivInt(IF ok THEN RatOfInt(0) ELSE RatSub(RatOfInt(1), lost), n))

\* ResponseList.append(value)
append(value) ==
    LET n == Len(responses) + 1 IN
    /\ responses' = Append(responses, value)
    /\ IF n = 1
       THEN /\ rtt_avg' = RatOfInt(value.time_elapsed)
            /\ rtt_max' = value.time_elapsed
            /\ rtt_min' = value.time_elapsed
       ELSE /\ rtt_avg' = RollingAvg(rtt_avg, n, value.time_elapsed)
            /\ rtt_max' = NewMax(rtt_max, value.time_elapsed)
            /\ rtt_min' = NewMin(rtt_min, value.time_elapsed)
    /\ packets_lost' = NewPacketsLost(packets_lost, ResponseSuccess(value), n)
    /\ appended' = appended + 1
    /\ ret' = NoCall

\* ResponseList.clear()
clear ==
    /\ responses' = <<>>
    /\ UNCHANGED <<rtt_avg, rtt_min, rtt_max, packets_lost>>

SuccessMostBroken(resps, option) ==
    LET success_list == [i \in 1..Len(resps) |-> ResponseSuccess(resps[i])] IN
    IF option = SuccessOn.One THEN Returns(InList(TRUE, success_list))
    ELSE IF option = SuccessOn.Most
         THEN IF Len(success_list) = 0 THEN Raises("ZeroDivisionError")
              ELSE Returns(~RatLess(Rat(Count(TRUE, success_list), Len(success_list)), <<1, 2>>))
    ELSE IF option = SuccessOn.All THEN Returns(~InList(FALSE, success_list))
    ELSE Returns(FALSE)

\* ResponseList.success(option): its result, or the error it raises
success(resps, option) ==
    LET success_list == [i \in 1..Len(resps) |-> ResponseSuccess(resps[i])] IN
    IF option = SuccessOn.One THEN Returns(InList(TRUE, success_list))
    ELSE IF option = SuccessOn.Most
         THEN IF Len(success_list) = 0 THEN Raises("ZeroDivisionError")
              ELSE Returns(RatLess(<<1, 2>>, Rat(Count(TRUE, success_list), Len(success_list))))
    ELSE IF option = SuccessOn.All THEN Returns(~InList(FALSE, success_list))
    ELSE Returns(FALSE)

\* ResponseList.packet_loss
packet_loss == packets_lost

\* the results a caller appends: no reply, an Echo Reply, Host Unreachable,
\* and a type-0 message with a non-zero code
ListMessages ==
    {NoMessage, Packet(0, 0, 1, 1, <<>>), Packet(3, 1, 1, 1, <<>>), Packet(0, 1, 1, 1, <<>>)}
ListValues == {Response(m, e) : m \in ListMessages, e \in 0..MaxElapsed}

ListAppend(value) ==
    /\ appended < MaxAppends
    /\ append(value)
    /\ UNCHANGED nonListVars

ListClear ==
    /\ Len(responses) > 0
    /\ clear
    /\ ret' = NoCall
    /\ UNCHANGED <<appended, nonListVars>>

ListSuccess(option) ==
    /\ ret' = [option |-> option,
               result |-> success(responses, option).result,
               raised |-> success(responses, option).raised]
    /\ UNCHANGED <<listVars, appended, nonListVars>>

NextList ==
    \/ \E value \in ListValues : ListAppend(value)
    \/ ListClear
    \/ \E option \in Options : ListSuccess(option)

(* ------------------------- ping(): SEED_IDs --------------------------- *)
\* How comm.run() can end inside ping()
RunOutcomes == {"completed", "stopped_early", "send_fault", "receive_fault"}
RunReturns(o) == o \in {"completed", "stopped_early"}

\* a thread calls ping(): provider and options are built, the loop is entered
PingCall(t) ==
    /\ ping_pc[t] = "idle"
    /\ ping_pc' = [ping_pc EXCEPT ![t] = "draw"]
    /\ ping_seed_id' = [ping_seed_id EXCEPT ![t] = 0]
    /\ ping_exit' = [ping_exit EXCEPT ![t] = "none"]
    /\ UNCHANGED <<SEED_IDs, nonPingVars>>

\* seed_id = randint(0x1, 0xFFFF)
PingDraw(t) ==
    /\ ping_pc[t] = "draw"
    /\ \E id \in Ids : ping_seed_id' = [ping_seed_id EXCEPT ![t] = id]
    /\ ping_pc' = [ping_pc EXCEPT ![t] = "test"]
    /\ UNCHANGED <<SEED_IDs, ping_exit, nonPingVars>>

\* if seed_id not in SEED_IDs: (else: around the loop again)
PingTest(t) ==
    /\ ping_pc[t] = "test"
    /\ ping_pc' = [ping_pc EXCEPT ![t] =
            IF InList(ping_seed_id[t], SEED_IDs) THEN "draw" ELSE "append"]
    /\ UNCHANGED <<SEED_IDs, ping_seed_id, ping_exit, nonPingVars>>

\* SEED_IDs.append(seed_id); break
PingAppend(t) ==
    /\ ping_pc[t] = "append"
    /\ SEED_IDs' = Append(SEED_IDs, ping_seed_id[t])
    /\ ping_pc' = [ping_pc EXCEPT ![t] = "construct"]
    /\ UNCHANGED <<ping_seed_id, ping_exit, nonPingVars>>

\* comm = executor.Communicator(...): network.Socket(...) may raise
PingConstruct(t) ==
    /\ ping_pc[t] = "construct"
    /\ \E ok \in BOOLEAN :
          IF ok
          THEN /\ ping_pc' = [ping_pc EXCEPT ![t] = "run"]
               /\ UNCHANGED ping_exit
          ELSE /\ ping_pc' = [ping_pc EXCEPT ![t] = "ended"]
               /\ ping_exit' = [ping_exit EXCEPT ![t] = "construct_fault"]
    /\ UNCHANGED <<SEED_IDs, ping_seed_id, nonPingVars>>

\* comm.run(match_payloads=match): returns, or a fault of send or receive
\* propagates out of ping()
PingRun(t) ==
    /\ ping_pc[t] = "run"
    /\ \E o \in RunOutcomes :
          /\ ping_exit' = [ping_exit EXCEPT ![t] = o]
          /\ ping_pc' = [ping_pc EXCEPT ![t] =
                IF RunReturns(o) THEN "remove" ELSE "ended"]
    /\ UNCHANGED <<SEED_IDs, ping_seed_id, nonPingVars>>

\* SEED_IDs.remove(seed_id); return comm.responses
PingRemove(t) ==
    /\ ping_pc[t] = "remove"
    /\ InList(ping_seed_id[t], SEED_IDs)
    /\ SEED_IDs' = ListRemove(SEED_IDs, ping_seed_id[t])
    /\ ping_pc' = [ping_pc EXCEPT ![t] = "ended"]
    /\ UNCHANGED <<ping_seed_id, ping_exit, nonPingVars>>

\* the caller goes on and may call ping() again
PingAgain(t) ==
    /\ ping_pc[t] = "ended"
    /\ ping_pc' = [ping_pc EXCEPT ![t] = "idle"]
    /\ UNCHANGED <<SEED_IDs, ping_seed_id, ping_exit, nonPingVars>>

NextPing ==
    \E t \in Threads :
        \/ PingCall(t)
        \/ PingDraw(t)
        \/ PingTest(t)
        \/ PingAppend(t)
        \/ PingConstruct(t)
        \/ PingRun(t)
        \/ PingRemove(t)
        \/ PingAgain(t)

(* ---------------------------- Communicator ---------------------------- *)
\* per-packet timeouts, in ticks
MaxTimeout == 2
\* payloads of a provider
MaxCount == 2
\* 0xFFFF, the largest sequence number
SeqLimit == 65535
\* float("inf")
Inf == -1

\* the payload the provider repeats
SentPayload == <<7>>

\* words of a raw packet before its payload: type, code, checksum, id, sequence
HeaderLen == 5

\* the bytes on the wire of a packet (ICMP header, then payload)
Encode(p) ==
    <<p.message_type, p.message_code, 0, p.id, p.sequence_number>> \o p.payload

\* icmp.ICMP.unpack(raw): the fields, or a format error on a short buffer
unpack(raw) ==
    IF Len(raw) < HeaderLen
    THEN [ok |-> FALSE, packet |-> NoMessage]
    ELSE [ok |-> TRUE,
          packet |-> Packet(raw[1], raw[2], raw[4], raw[5],
                            SubSeq(raw, HeaderLen + 1, Len(raw)))]

\* what the socket may deliver to a session with identifier 1 that sent
\* SentPayload: the Echo Reply to its first and to its second request, a
\* reply with a truncated payload, a reply to another session, its own Echo
\* Request, a Destination Unreachable, and a packet cut short
RawPackets ==
    {Encode(Packet(0, 0, 1, 1, SentPayload)),
     Encode(Packet(0, 0, 1, 2, SentPayload)),
     Encode(Packet(0, 0, 1, 1, <<>>)),
     Encode(Packet(0, 0, 2, 1, SentPayload)),
     Encode(Packet(8, 0, 1, 1, SentPayload)),
     Encode(Packet(3, 1, 1, 1, SentPayload)),
     <<0, 0>>}

\* network.Socket.receive(timeout): (raw_packet, time_left) with a packet and
\* any part of the budget left, or b'' with the budget used up
Receive(budget) ==
    {[raw |-> raw, time_left |-> left] : raw \in RawPackets, left \in 0..budget}
    \cup {[raw |-> <<>>, time_left |-> 0]}

\* listen_for: the budget handed to each receive call
ReceiveBudgetReset(timeout, left) == timeout
ReceiveBudget(timeout, left) == left

\* listen_for: the test a received packet must pass
MatchesIdOnly(response, packet_id, pattern) ==
    /\ response.id = packet_id
    /\ IF pattern = <<>> THEN TRUE ELSE pattern[1] = response.payload
Matches(response, packet_id, pattern) ==
    /\ response.id = packet_id
    /\ response.message_type # 8
    /\ IF pattern = <<>> THEN TRUE ELSE pattern[1] = response.payload

\* Communicator.increase_seq
increase_seq_mask(sequence_number) == (sequence_number + 1) % (SeqLimit + 1)
increase_seq(sequence_number) ==
    IF sequence_number + 1 > SeqLimit THEN 1 ELSE sequence_number + 1

\* run: if self.overall_runtime + self.interval >= self.overall_timeout: break
DeadlineIgnoresInterval(overall_runtime, interval, overall_timeout) ==
    overall_timeout # Inf /\ overall_runtime >= overall_timeout
\* the deadline test with > in place of >=
DeadlineStrict(overall_runtime, interval, overall_timeout) ==
    overall_timeout # Inf /\ overall_runtime + interval > overall_timeout
DeadlineReached(overall_runtime, interval, overall_timeout) ==
    overall_timeout # Inf /\ overall_runtime + interval >= overall_timeout

\* seed_id = os.getpid() & 0xFFFF, the default when no seed_id is given
DefaultSeedId(pid) == pid % (SeqLimit + 1)

\* Communicator(target, provider, timeout, seed_id, interval, overall_timeout)
Communicator(provider, timeout, seed_id, interval, overall_timeout) ==
    [provider |-> provider, timeout |-> timeout, seed_id |-> seed_id,
     interval |-> interval, overall_timeout |-> overall_timeout]

\* payload_provider.Repeat(payload, count): count payloads, or without end
\* (count = None, written Inf)
Repeat(payload, count) == [payload |-> payload, count |-> count]
\* the for loop of run() has another payload to take
HasNext(provider, taken) == provider.count = Inf \/ taken < provider.count

\* the state after Communicator.__init__
InitRun(c, match) ==
    /\ comm = c
    /\ match_payloads = match
    /\ pc = "created"
    /\ now = 0
    /\ seq = 0
    /\ next_payload = 0
    /\ start_time = -1
    /\ stop_time = -1
    /\ time_left = 0
    /\ payload_pattern = <<>>
    /\ result = Response(NoMessage, 0)
    /\ attempts = 0
    /\ last_sent = NoMessage
    /\ prev_sent = NoMessage
    /\ waited = 0
    /\ last_raw = <<>>
    /\ last_outcome = "none"

\* run(), up to the for loop
RunStart ==
    /\ pc = "created"
    /\ clear
    /\ seq' = 1
    /\ start_time' = now
    /\ pc' = "loop"
    /\ UNCHANGED <<comm, match_payloads, now, next_payload, stop_time,
                   time_left, payload_pattern, result>>
    /\ UNCHANGED <<pingVars, respVars, callVars, netVars>>

\* for payload in self.provider: send_ping(identifier, seq, payload), and
\* listen_for() is entered: time_left = timeout
SendPing ==
    /\ pc = "loop"
    /\ HasNext(comm.provider, next_payload)
    /\ next_payload' = next_payload + 1
    /\ LET payload == comm.provider.payload
           request == Packet(8, 0, comm.seed_id, seq, payload)
       IN  /\ last_sent' = request
           /\ prev_sent' = last_sent
           /\ payload_pattern' = IF match_payloads THEN <<request.payload>> ELSE <<>>
    /\ attempts' = attempts + 1
    /\ time_left' = comm.timeout
    /\ waited' = 0
    /\ last_raw' = <<>>
    /\ last_outcome' = "none"
    /\ pc' = "listen"
    /\ UNCHANGED <<comm, match_payloads, now, seq, start_time, stop_time, result>>
    /\ UNCHANGED <<pingVars, respVars, listVars, callVars>>

\* self.socket.send raises: the fault leaves run()
SendFault ==
    /\ pc = "loop"
    /\ HasNext(comm.provider, next_payload)
    /\ next_payload' = next_payload + 1
    /\ pc' = "raised"
    /\ UNCHANGED <<comm, match_payloads, now, seq, start_time, stop_time,
                   time_left, payload_pattern, result>>
    /\ UNCHANGED <<pingVars, respVars, listVars, callVars, netVars>>

\* the provider is exhausted: run() returns
RunEnd ==
    /\ pc = "loop"
    /\ ~HasNext(comm.provider, next_payload)
    /\ pc' = "done"
    /\ UNCHANGED <<comm, match_payloads, now, seq, next_payload, start_time,
                   stop_time, time_left, payload_pattern, result>>
    /\ UNCHANGED <<pingVars, respVars, listVars, callVars, netVars>>

\* listen_for, one turn of `while time_left > 0`: receive, unpack, match
ListenReceive ==
    /\ pc = "listen"
    /\ time_left > 0
    /\ \E got \in Receive(ReceiveBudget(comm.timeout, time_left)) :
          LET consumed == ReceiveBudget(comm.timeout, time_left) - got.time_left
              response == unpack(got.raw)
          IN  /\ now' = now + consumed
              /\ waited' = waited + consumed
              /\ time_left' = got.time_left
              /\ last_raw' = got.raw
              /\ IF got.raw = <<>>
                 THEN /\ last_outcome' = "empty"
                      /\ UNCHANGED <<pc, result>>
                 ELSE IF ~response.ok
                 THEN /\ last_outcome' = "format_error"
                      /\ pc' = "raised"
                      /\ UNCHANGED result
                 ELSE IF Matches(response.packet, comm.seed_id, payload_pattern)
                 THEN /\ last_outcome' = "accepted"
                      /\ result' = Response(response.packet,
                                            comm.timeout - got.time_left)
                      /\ pc' = "returned"
                 ELSE /\ last_outcome' = "rejected"
                      /\ UNCHANGED <<pc, result>>
    /\ UNCHANGED <<comm, match_payloads, seq, next_payload, start_time,
                   stop_time, payload_pattern>>
    /\ UNCHANGED <<attempts, last_sent, prev_sent>>
    /\ UNCHANGED <<pingVars, respVars, listVars, callVars>>

\* self.socket.receive raises: the fault leaves listen_for() and run()
ReceiveFault ==
    /\ pc = "listen"
    /\ time_left > 0
    /\ pc' = "raised"
    /\ last_outcome' = "fault"
    /\ UNCHANGED <<comm, match_payloads, now, seq, next_payload, start_time,
                   stop_time, time_left, payload_pattern, result>>
    /\ UNCHANGED <<attempts, last_sent, prev_sent, waited, last_raw>>
    /\ UNCHANGED <<pingVars, respVars, listVars, callVars>>

\* a result without message whose elapsed time is what was left of the budget
NoResponseTimeLeft(timeout, left) == Response(NoMessage, left)

\* listen_for's last line: Response(None, timeout)
NoResponse(timeout, left) == Response(NoMessage, timeout)

\* listen_for, the loop is left: return Response(None, timeout)
ListenTimeout ==
    /\ pc = "listen"
    /\ ~(time_left > 0)
    /\ result' = NoResponse(comm.timeout, time_left)
    /\ pc' = "returned"
    /\ last_outcome' = "timed_out"
    /\ UNCHANGED <<comm, match_payloads, now, seq, next_payload, start_time,
                   stop_time, time_left, payload_pattern>>
    /\ UNCHANGED <<attempts, last_sent, prev_sent, waited, last_raw>>
    /\ UNCHANGED <<pingVars, respVars, listVars, callVars>>

\* run's step after listen_for, were a timed-out result dropped
AdvanceSkipsTimeouts ==
    /\ pc = "returned"
    /\ IF result.message = NoMessage
       THEN UNCHANGED <<listVars, callVars>>
       ELSE append(result)
    /\ stop_time' = now
    /\ pc' = IF DeadlineReached(now - start_time, comm.interval,
                                comm.overall_timeout)
             THEN "done" ELSE "sleep"
    /\ UNCHANGED <<comm, match_payloads, now, seq, next_payload, start_time,
                   time_left, payload_pattern, result>>
    /\ UNCHANGED <<pingVars, respVars, netVars>>

\* run: responses.append(result), the stop time, the deadline test
Advance ==
    /\ pc = "returned"
    /\ append(result)
    /\ stop_time' = now
    /\ pc' = IF DeadlineReached(now - start_time, comm.interval,
                                comm.overall_timeout)
             THEN "done" ELSE "sleep"
    /\ UNCHANGED <<comm, match_payloads, now, seq, next_payload, start_time,
                   time_left, payload_pattern, result>>
    /\ UNCHANGED <<pingVars, respVars, netVars>>

\* run: time.sleep(self.interval); seq = self.increase_seq(seq)
Sleep ==
    /\ pc = "sleep"
    /\ now' = now + comm.interval
    /\ seq' = increase_seq(seq)
    /\ pc' = "loop"
    /\ UNCHANGED <<comm, match_payloads, next_payload, start_time, stop_time,
                   time_left, payload_pattern, result>>
    /\ UNCHANGED <<pingVars, respVars, listVars, callVars, netVars>>

NextRun ==
    \/ RunStart
    \/ SendPing
    \/ SendFault
    \/ RunEnd
    \/ ListenReceive
    \/ ReceiveFault
    \/ ListenTimeout
    \/ Advance
    \/ Sleep

\* attempts of the long run that SpecSeq follows
MaxAttempts == 65537

\* run, one whole turn of the for loop as the sequence numbers see it: the
\* request is sent with seq, and seq = self.increase_seq(seq); the wait and
\* the result are left out (the series of a run this long fits no state)
SeqAttempt ==
    /\ pc = "loop"
    /\ HasNext(comm.provider, next_payload)
    /\ attempts < MaxAttempts
    /\ next_payload' = next_payload + 1
    /\ last_sent' = Packet(8, 0, comm.seed_id, seq, comm.provider.payload)
    /\ prev_sent' = last_sent
    /\ attempts' = attempts + 1
    /\ seq' = increase_seq(seq)
    /\ UNCHANGED <<comm, match_payloads, pc, now, start_time, stop_time,
                   time_left, payload_pattern, result>>
    /\ UNCHANGED <<waited, last_raw, last_outcome>>
    /\ UNCHANGED <<pingVars, respVars, listVars, callVars>>

NextSeq ==
    \/ RunStart
    \/ SeqAttempt

\* the sessions checked: every timeout, interval, deadline, count and
\* matching mode of the bounds, and overall_timeout = 2.5 s with interval =
\* 1 s over ten payloads
Intervals == {0, 2}
OverallTimeouts == {0, 3, 5, Inf}
\* process ids of the interpreter that creates a Communicator without seed_id
Pids == {65536, 65538}

RunConfigs ==
    {Communicator(Repeat(SentPayload, count), timeout, 1, interval, overall) :
        count \in 0..MaxCount, timeout \in 1..MaxTimeout,
        interval \in Intervals, overall \in OverallTimeouts}
    \cup {Communicator(Repeat(SentPayload, 10), timeout, 1, 2, 5) :
            timeout \in 1..MaxTimeout}
    \cup {Communicator(Repeat(SentPayload, count), 1, DefaultSeedId(pid), 0, Inf) :
            count \in 1..MaxCount, pid \in Pids}

(* --------------------------- specifications --------------------------- *)
\* no ping() call has begun
InitPingOnly ==
    /\ SEED_IDs = <<>>
    /\ ping_pc = [t \in Threads |-> "idle"]
    /\ ping_seed_id = [t \in Threads |-> 0]
    /\ ping_exit = [t \in Threads |-> "none"]

\* ResponseList(): no initial set
InitList ==
    /\ responses = <<>>
    /\ rtt_avg = RatOfInt(0)
    /\ rtt_min = 0
    /\ rtt_max = 0
    /\ packets_lost = RatOfInt(0)
    /\ appended = 0
    /\ ret = NoCall

\* a Communicator nobody runs
IdleComm == Communicator(Repeat(<<>>, 0), 1, 1, 2, Inf)

\* nothing has been called yet
InitIdle ==
    InitPingOnly /\ InitList /\ error_read = NoRead /\ InitRun(IdleComm, FALSE)

\* a Communicator of each configuration, about to run
InitComm ==
    /\ InitPingOnly
    /\ InitList
    /\ error_read = NoRead
    /\ \E c \in RunConfigs : \E match \in BOOLEAN : InitRun(c, match)

\* one Communicator.run()
Spec == InitComm /\ [][NextRun]_vars

\* a Communicator over a provider without end, no deadline
InitSeq ==
    /\ InitPingOnly
    /\ InitList
    /\ error_read = NoRead
    /\ InitRun(Communicator(Repeat(SentPayload, Inf), 1, 1, 0, Inf), FALSE)

\* the sequence numbers of one run() of MaxAttempts attempts
SpecSeq == InitSeq /\ [][NextSeq]_vars

\* threads calling ping() concurrently
SpecPing == InitIdle /\ [][NextPing]_vars

\* Response objects whose error_message and success are read
NextResponse == \E r \in ResponseInputs(MaxElapsed) : ReadErrorMessage(r)
SpecResponse == InitIdle /\ [][NextResponse]_vars

\* a ResponseList under append, clear and success
SpecList == InitIdle /\ [][NextList]_vars

(* ------------------------------- claims ------------------------------- *)
\* a session is active from the append of its identifier to its release
PingActive(t) == ping_pc[t] \in {"construct", "run", "remove"}

(* C1: two sessions that are active at the same time never hold the same
   session identifier, under any interleaving of concurrent ping() calls. *)
C1_ActiveIdsDistinct ==
    \A t1 \in Threads : \A t2 \in Threads :
        (t1 # t2 /\ PingActive(t1) /\ PingActive(t2))
            => ping_seed_id[t1] # ping_seed_id[t2]

(* C2: every identifier ping() marks in use is unmarked on every way the
   call can end: once a call has ended, the list holds its identifier only
   for the calls that still hold it (drawn it and not yet ended). *)
C2_ReleasedOnEveryExit ==
    \A id \in Ids :
        Count(id, SEED_IDs)
            <= Cardinality({t \in Threads : PingActive(t) /\ ping_seed_id[t] = id})

\* what the claims compare the statistics with
Elapsed(resps) == [i \in 1..Len(resps) |-> resps[i].time_elapsed]
RECURSIVE SeqSum(_)
SeqSum(q) == IF q = <<>> THEN 0 ELSE Head(q) + SeqSum(Tail(q))
SeqMin(q) == CHOOSE x \in {q[i] : i \in 1..Len(q)} : \A i \in 1..Len(q) : x <= q[i]
SeqMax(q) == CHOOSE x \in {q[i] : i \in 1..Len(q)} : \A i \in 1..Len(q) : x >= q[i]
Failures(resps) == Cardinality({i \in 1..Len(resps) : ~ResponseSuccess(resps[i])})
Successes(resps) == Cardinality({i \in 1..Len(resps) : ResponseSuccess(resps[i])})
\* no clear() has dropped a result
NeverCleared == appended = Len(responses)

(* C6: after any sequence of appends to a ResponseList that starts empty,
   the stored loss fraction equals the number of unsuccessful results
   divided by the number of results appended, in exact arithmetic. *)
C6_LossIsFailuresOverCount ==
    (NeverCleared /\ Len(responses) >= 1)
        => packet_loss = Rat(Failures(responses), Len(responses))

(* C7: after any non-empty sequence of appends, rtt_min is the minimum,
   rtt_max the maximum and rtt_avg the exact mean of the elapsed times of
   all results held, timed-out ones included; after the first append all
   three equal that result's elapsed time. *)
C7_RttStatistics ==
    Len(responses) >= 1 =>
        /\ rtt_min = SeqMin(Elapsed(responses))
        /\ rtt_max = SeqMax(Elapsed(responses))
        /\ rtt_avg = Rat(SeqSum(Elapsed(responses)), Len(responses))
        /\ Len(responses) = 1 =>
              /\ rtt_min = responses[1].time_elapsed
              /\ rtt_max = responses[1].time_elapsed
              /\ rtt_avg = RatOfInt(responses[1].time_elapsed)

\* three results with the extremes in the middle and a timed-out one last
C7_Witness ==
    /\ Len(responses) = 3
    /\ Elapsed(responses) = <<1, 0, 2>>
    /\ responses[3].message = NoMessage
    /\ rtt_min = 0 /\ rtt_max = 2 /\ rtt_avg = <<1, 1>>

(* C8: on an empty ResponseList success(threshold) returns false for One,
   Most and All, and raises no error. *)
C8_EmptySuccessIsFalse ==
    (ret # NoCall /\ Len(responses) = 0)
        => (ret.raised = None /\ ret.result = FALSE)

(* C9: on a non-empty ResponseList with s successful results out of n,
   success(One) is s >= 1, success(Most) is 2*s > n, success(All) is
   s = n, and the call changes neither the series nor its statistics. *)
C9_SuccessThresholds ==
    [][\A option \in Options :
          (ListSuccess(option) /\ Len(responses) >= 1) =>
              /\ ret'.raised = None
              /\ ret'.result =
                    (IF option = SuccessOn.One THEN Successes(responses) >= 1
                     ELSE IF option = SuccessOn.Most
                          THEN 2 * Successes(responses) > Len(responses)
                     ELSE Successes(responses) = Len(responses))
              /\ UNCHANGED listVars]_vars

\* success(Most) answered false on one success out of two
C9_Witness ==
    /\ ret # NoCall
    /\ ret.option = SuccessOn.Most
    /\ ret.result = FALSE
    /\ Len(responses) = 2
    /\ Successes(responses) = 1

\* the packet listen_for() decoded last
LastPacket == unpack(last_raw).packet

(* C3: within one attempt the budget starts at the per-packet timeout and is
   only ever replaced by what receive returned, so the time the attempt has
   waited and the budget left add up to the timeout; the time waited never
   exceeds the timeout, and a matched result has 0 <= elapsed <= timeout. *)
C3_WaitWithinTimeout ==
    attempts >= 1 =>
        /\ waited + time_left = comm.timeout
        /\ waited <= comm.timeout
        /\ (pc = "returned" /\ result.message # NoMessage) =>
              /\ result.time_elapsed >= 0
              /\ result.time_elapsed <= comm.timeout
              /\ result.time_elapsed = waited

\* a packet that did not match has used part of the budget, the rest is left
C3_Witness ==
    /\ pc = "listen"
    /\ last_outcome = "rejected"
    /\ waited > 0
    /\ time_left > 0
    /\ time_left < comm.timeout

(* C4: listen_for never returns a packet whose identifier differs from the
   request's, whose type is Echo Request, or (payload matching enabled)
   whose payload is not the payload sent; a decoded packet it does not
   return fails one of these, so with matching disabled the payload never
   matters; and a packet not returned leaves the attempt in its wait. *)
C4_MatchingRule ==
    /\ last_outcome = "accepted" =>
          /\ result.message = LastPacket
          /\ LastPacket.id = last_sent.id
          /\ LastPacket.message_type # 8
          /\ match_payloads => LastPacket.payload = last_sent.payload
    /\ last_outcome = "rejected" =>
          /\ pc = "listen"
          /\ \/ LastPacket.id # last_sent.id
             \/ LastPacket.message_type = 8
             \/ match_payloads /\ LastPacket.payload # last_sent.payload

\* an Echo Reply with the session's identifier and a truncated payload is
\* turned down under payload matching
C4_Witness ==
    /\ last_outcome = "rejected"
    /\ match_payloads
    /\ LastPacket.id = comm.seed_id
    /\ LastPacket.message_type = 0
    /\ LastPacket.payload # last_sent.payload

\* overall_timeout = 2.5 s, interval = 1 s, ten payloads
C5_Scenario ==
    /\ comm.overall_timeout = 5
    /\ comm.interval = 2
    /\ comm.provider.count = 10

(* C5 as stated: with overall_timeout = 2.5 s and interval = 1 s a session
   over 10 payloads sends at most 2 requests and appends at most 2 results. *)
C5_AtMostTwoAttempts ==
    C5_Scenario => (attempts <= 2 /\ Len(responses) <= 2)

(* C5 as amended: with overall_timeout = 2.5 s and interval = 1 s a session
   over 10 payloads sends at most 3 requests and appends at most 3 results,
   whatever the attempts last. *)
C5_AtMostThreeAttempts ==
    C5_Scenario => (attempts <= 3 /\ Len(responses) <= 3)

\* the session ended by the deadline after its third attempt
C5_Witness ==
    /\ C5_Scenario
    /\ pc = "done"
    /\ attempts = 3
    /\ Len(responses) = 3

(* C10: every request carries a sequence number in 1..65535: the first 1,
   each later one the successor of the one before, 65535 followed by 1;
   0 is never sent, also after more than 65535 attempts. *)
C10_SequenceNumbers ==
    attempts >= 1 =>
        /\ last_sent.sequence_number \in 1..65535
        /\ attempts = 1 => last_sent.sequence_number = 1
        /\ attempts > 1 =>
              last_sent.sequence_number =
                 (IF prev_sent.sequence_number < 65535
                  THEN prev_sent.sequence_number + 1 ELSE 1)

\* the request after the one that carried 65535 carries 1
C10_Witness ==
    /\ attempts = 65536
    /\ prev_sent.sequence_number = 65535
    /\ last_sent.sequence_number = 1

(* C11: a Response is successful exactly when it has a message of type 0 and
   code 0; otherwise its error message is 'No response' without a message,
   the entry of the sixteen-entry table at index code for type 3 and code
   0..15, 'Unreachable' for type 3 and a code above 15, and 'Network Error'
   for every other type and code. *)
C11_ErrorMessage ==
    error_read # NoRead =>
        LET m == error_read.response.message
            echo_reply == m # NoMessage /\ m.message_type = 0 /\ m.message_code = 0
        IN  /\ error_read.success = echo_reply
            /\ Len(unreachable_messages) = 16
            /\ error_read.error_message =
                 (IF echo_reply THEN None
                  ELSE IF m = NoMessage THEN "No response"
                  ELSE IF m.message_type = 3 /\ m.message_code <= 15
                       THEN unreachable_messages[m.message_code + 1]
                  ELSE IF m.message_type = 3 THEN "Unreachable"
                  ELSE "Network Error")

\* a Destination Unreachable with code 16 reads 'Unreachable'
C11_Witness ==
    /\ error_read # NoRead
    /\ error_read.response.message # NoMessage
    /\ error_read.response.message.message_type = 3
    /\ error_read.response.message.message_code = 16
    /\ error_read.error_message = "Unreachable"
    /\ ~error_read.success

(* C12: the identifier carried by every request of a session is an integer
   in 1..65535 and is the same for all requests of the session. *)
C12_IdentifierInRange ==
    attempts >= 1 =>
        /\ last_sent.id \in 1..SeqLimit
        /\ last_sent.id = comm.seed_id
        /\ attempts > 1 => prev_sent.id = last_sent.id

(* C13: a session is one-shot and half-duplex: one request is sent for each
   payload taken, one result is appended before the next request is sent, a
   timed-out attempt is not sent again, and the results are stored in the
   order of the requests; whenever a request is out the series holds one
   result for every earlier request, and at most one request is outstanding. *)
C13_OneShotHalfDuplex ==
    [][/\ (pc' \in {"listen", "returned"}
             => /\ Len(responses') = attempts' - 1
                /\ last_sent'.sequence_number = attempts'
                /\ attempts' > 1 => prev_sent'.sequence_number = attempts' - 1)
       /\ (pc' \in {"loop", "sleep", "done"} => Len(responses') = attempts')
       /\ (pc' # "raised" => attempts' = next_payload')
       /\ (attempts' # attempts
             => /\ attempts' = attempts + 1
                /\ Len(responses) = attempts
                /\ responses' = responses)
       /\ (responses' # responses
             => /\ pc = "returned"
                /\ responses' = Append(responses, result)
                /\ attempts' = attempts)]_vars

\* the first attempt timed out, its result is stored, and the request that is
\* out is the second one
C13_Witness ==
    /\ pc = "listen"
    /\ attempts = 2
    /\ Len(responses) = 1
    /\ responses[1].message = NoMessage
    /\ last_sent.sequence_number = 2
    /\ prev_sent.sequence_number = 1

(* C14: after each attempt's result is appended the elapsed session time is
   compared with the deadline: when elapsed + interval >= overall_timeout the
   session stops and sends no further request, payloads remaining or not;
   otherwise the next request is sent only after the interval sleep. The
   deadline is tested neither before the first attempt nor during a wait, so
   a session with a non-empty payload source performs at least one full
   attempt, also with overall_timeout 0. *)
C14_DeadlineAfterEachAttempt ==
    [][/\ (pc = "returned" /\ pc' # "returned"
             => /\ responses' = Append(responses, result)
                /\ pc' = IF /\ comm.overall_timeout # Inf
                            /\ (now - start_time) + comm.interval
                                 >= comm.overall_timeout
                         THEN "done" ELSE "sleep")
       /\ (pc = "done" => pc' = "done" /\ attempts' = attempts)
       /\ (attempts' # attempts /\ attempts >= 1
             => /\ Len(responses) = attempts
                /\ now >= stop_time + comm.interval)
       /\ (pc' = "done" /\ pc # "done"
             => \/ pc = "returned"
                \/ pc = "loop" /\ next_payload = comm.provider.count)
       /\ (pc' = "done" /\ comm.provider.count > 0
             => /\ Len(responses') >= 1
                /\ attempts' >= 1)]_vars

\* overall_timeout is 0, payloads remain, and the session stopped after one
\* full attempt that waited its whole timeout
C14_Witness ==
    /\ comm.overall_timeout = 0
    /\ comm.provider.count = 2
    /\ pc = "done"
    /\ attempts = 1
    /\ Len(responses) = 1
    /\ responses[1].message = NoMessage
    /\ responses[1].time_elapsed = comm.timeout

(* C15: when the budget of an attempt is used up with no accepted packet,
   also when the last receive returned empty bytes, listen_for returns a
   result with no message and elapsed equal to the per-packet timeout; the
   result is unsuccessful, is appended like any other, and nothing is
   raised. *)
C15_TimeoutIsAResult ==
    /\ (pc = "listen" /\ time_left <= 0 => ENABLED ListenTimeout)
    /\ (last_outcome = "timed_out"
          => /\ time_left <= 0
             /\ result.message = NoMessage
             /\ result.time_elapsed = comm.timeout
             /\ ~ResponseSuccess(result)
             /\ error_message(result) = "No response"
             /\ \/ pc = "returned" /\ Len(responses) = attempts - 1
                \/ /\ pc # "returned"
                   /\ Len(responses) = attempts
                   /\ responses[Len(responses)] = result)

\* receive returned empty bytes with the budget used up, and the timed-out
\* result of the second attempt is stored
C15_Witness ==
    /\ last_outcome = "timed_out"
    /\ last_raw = <<>>
    /\ waited = comm.timeout
    /\ comm.timeout = 2
    /\ attempts = 2
    /\ Len(responses) = 2
    /\ responses[2] = Response(NoMessage, 2)

(* C16: a received packet that is malformed or truncated, so that decoding
   it reports a format error, is treated as not matching: the error leaves
   neither listen_for nor run, and the attempt keeps waiting on the budget
   it has left. *)
C16_FormatErrorIsNoMatch ==
    (last_raw # <<>> /\ ~unpack(last_raw).ok)
        => /\ pc # "raised"
           /\ last_outcome \in {"rejected", "timed_out"}

(* C17: whenever run() returns normally the stop time of the session has
   been recorded and is not earlier than its start time, so that runtime
   (stop_time - start_time) is defined, also when the payload source yields
   no payload. *)
C17_StopTimeRecorded ==
    pc = "done" => stop_time # -1 /\ stop_time >= start_time

(* C18: the reply accepted for an attempt belongs to the request of that
   attempt: an accepted Echo Reply that answers a request of the session
   (its sequence number is one the session has sent) carries the sequence
   number of the request just sent. *)
C18_ReplyBelongsToAttempt ==
    (/\ last_outcome = "accepted"
     /\ LastPacket.message_type = 0
     /\ LastPacket.sequence_number \in 1..attempts)
        => LastPacket.sequence_number = last_sent.sequence_number

\* the statistics of a fresh ResponseList after the results rs are appended
RECURSIVE FreshLoss(_)
FreshLoss(rs) ==
    IF rs = <<>> THEN RatOfInt(0)
    ELSE NewPacketsLost(FreshLoss(SubSeq(rs, 1, Len(rs) - 1)),
                        ResponseSuccess(rs[Len(rs)]), Len(rs))

RECURSIVE FreshAvg(_)
FreshAvg(rs) ==
    IF rs = <<>> THEN RatOfInt(0)
    ELSE IF Len(rs) = 1 THEN RatOfInt(rs[1].time_elapsed)
    ELSE RollingAvg(FreshAvg(SubSeq(rs, 1, Len(rs) - 1)), Len(rs),
                    rs[Len(rs)].time_elapsed)

RECURSIVE FreshMax(_)
FreshMax(rs) ==
    IF rs = <<>> THEN 0
    ELSE IF Len(rs) = 1 THEN rs[1].time_elapsed
    ELSE NewMax(FreshMax(SubSeq(rs, 1, Len(rs) - 1)), rs[Len(rs)].time_elapsed)

RECURSIVE FreshMin(_)
FreshMin(rs) ==
    IF rs = <<>> THEN 0
    ELSE IF Len(rs) = 1 THEN rs[1].time_elapsed
    ELSE NewMin(FreshMin(SubSeq(rs, 1, Len(rs) - 1)), rs[Len(rs)].time_elapsed)

(* C19: after clear() the statistics produced by later appends depend only
   on the results appended since the clear: rtt_min, rtt_max, rtt_avg and
   the loss fraction are those of a fresh ResponseList given the same later
   appends. *)
C19_ClearForgetsStatistics ==
    (appended > Len(responses) /\ Len(responses) >= 1)
        => /\ rtt_min = FreshMin(responses)
           /\ rtt_max = FreshMax(responses)
           /\ rtt_avg = FreshAvg(responses)
           /\ packet_loss = FreshLoss(responses)

====
